---------------------------- MODULE Spec2Model ----------------------------
(***************************************************************************)
(* OverwriteSQL (owsql): the trust-tagging and rewrite pipeline.           *)
(*                                                                         *)
(* A string is a sequence of characters; a character is a TLA+ string.     *)
(* "U+00E9" stands for a two-byte UTF-8 character, every other plain       *)
(* character is one byte.  A minted placeholder (at least 32 ASCII         *)
(* alphanumerics in the program) is one glyph Ph(serial, len) that is      *)
(* `len` bytes wide: the scanner never looks inside a placeholder, it only *)
(* reads whitespace-delimited words and looks them up.                     *)
(***************************************************************************)
EXTENDS Integers, Sequences, FiniteSets, TLC

VARIABLES
    db_type,            \* Connection.conn.db_type(): the dialect
    debug_assertions,   \* whether the build has cfg!(debug_assertions)
    allowlist,          \* Connection.allowlist : HashSet<String>
    serial_number,      \* Connection.serial_number
    ow_len_range,       \* Connection.ow_len_range : (usize, usize)
    overwrite,          \* Connection.overwrite : BidiMap<String, String>
    error_msg,          \* Connection.error_msg : BidiMap<OwsqlError, String>
    error_level,        \* Connection.error_level
    last,               \* the call the application just made and what it returned
    parts,              \* the query the application is concatenating
    result,             \* outcome of actual_sql/execute/iterate on that query
    bidimap,            \* a BidiMap used on its own (SpecBidi)
    parser,             \* a Parser used on its own (SpecParser)
    scan,               \* a run of tokenize or check_valid_literal, loop by loop
    threads,            \* the threads inside ow on the shared Connection
    borrow              \* the borrow flag of each RefCell of the Connection

vars == << db_type, debug_assertions, allowlist, serial_number, ow_len_range,
           overwrite, error_msg, error_level, last, parts, result, bidimap,
           parser, scan, threads, borrow >>

(***************************************************************************)
(* Bounds of the model.                                                    *)
(***************************************************************************)
MaxSerial == 3      \* placeholders minted per connection
MaxSettingsSerial == 2  \* placeholders minted while the settings change (Spec)
MaxParts  == 2      \* pieces concatenated into one query (SpecDeferred)
MaxDeferredSerial == 2  \* placeholders minted in SpecDeferred
MaxOwSerial == 1    \* placeholders minted in SpecOw
MaxOwParts == 1     \* pieces of a query in SpecOw
MaxQuerySerial == 2 \* placeholders minted in SpecTokenize
MaxQueryLen == 3    \* characters of a query text in SpecTokenize
MaxQueryParts == 1  \* pieces of a query in SpecTokenize
MaxAllowParts == 1  \* pieces of a query in SpecAllow
MaxExtra  == 1      \* how far above the minimum a placeholder length goes
MaxBidi   == 3      \* keys and values of the stand-alone BidiMap
MaxIntSerial == 2   \* placeholders minted in SpecInt
MaxIntParts == 1    \* pieces of a query in SpecInt
MaxQuotedSerial == 2  \* placeholders minted in SpecQuoted
MaxQuotedParts == 1   \* pieces of a query in SpecQuoted
MaxWordsSerial == 1   \* placeholders minted in SpecWords
MaxWordsLen == 5      \* characters of a query text in SpecWords
MaxWordsParts == 1    \* pieces of a query in SpecWords
MaxParserLen == 4     \* characters of the input of the stand-alone Parser
MaxScanSerial == 1    \* placeholders minted in SpecScan
MaxScanLen == 3       \* characters of the text scanned in SpecScan

(***************************************************************************)
(* Characters.                                                             *)
(***************************************************************************)
SQ == "'"
DQ == "\""
BS == "\\"
SP == " "
TAB == "\t"
WIDE == "U+00E9"

OW_MINIMUM_LENGTH == 32

\* The string overwrite_new(serial, range) returns, when its length is len.
Ph(serial, len) == "ph" \o ToString(serial) \o "_" \o ToString(len)

\* char::len_utf8 of the characters the cursor steps over; a placeholder
\* is a run of one-byte characters
len_utf8(c) == IF c = WIDE THEN 2 ELSE 1

\* char::is_whitespace
WhitespaceChars == { SP, TAB }
is_whitespace(c) == c \in WhitespaceChars

(***************************************************************************)
(* Errors.  An OwsqlError is AnyError or Message(text); a Debug message    *)
(* carries the detail after the text.                                      *)
(***************************************************************************)
ErrorLevels == { "AlwaysOk", "Release", "Develop", "Debug" }

AnyError == [kind |-> "AnyError", msg |-> "", detail |-> << >>]
Message(m, d) == [kind |-> "Message", msg |-> m, detail |-> d]

\* OwsqlError::new(level, msg, detail) : Result<(), OwsqlError>
OwsqlErrorNew(level, msg, detail) ==
    CASE level = "AlwaysOk" -> [st |-> "ok",  err |-> AnyError]
      [] level = "Release"  -> [st |-> "err", err |-> AnyError]
      [] level = "Develop"  -> [st |-> "err", err |-> Message(msg, << >>)]
      [] OTHER              -> [st |-> "err", err |-> Message(msg, detail)]

\* The error the scanner's primitives build: match self.error_level { ... }
ParserError(level, name) ==
    CASE level \in { "AlwaysOk", "Release" } -> AnyError
      [] level = "Develop" -> Message(name, << >>)
      [] OTHER             -> Message(name, << "d", "b", "g" >>)

(***************************************************************************)
(* Parser: a cursor `pos` over `input`.  The cursor counts the characters  *)
(* before it; OffBoundary is the one byte position the code can reach that *)
(* is not the start of a character: one byte into a final multi-byte       *)
(* character.  Every primitive returns [st, pos, val, err]: st is "ok",    *)
(* "err" (Result::Err) or "panic" (slicing the input off a character       *)
(* boundary).                                                              *)
(***************************************************************************)
POk(pos, val)  == [st |-> "ok",    pos |-> pos, val |-> val,   err |-> AnyError]
PErr(pos, e)   == [st |-> "err",   pos |-> pos, val |-> << >>, err |-> e]
PPanic(pos)    == [st |-> "panic", pos |-> pos, val |-> << >>, err |-> AnyError]

OffBoundary == -1

\* str::is_char_boundary
is_char_boundary(input, pos) == pos # OffBoundary

\* Parser::eof: self.pos >= self.input.len()
\* The value of an expression, computed once: The({ F(x) : x \in { e } }) is F(e)
The(S) == CHOOSE x \in S : TRUE

eof(input, pos) == pos # OffBoundary /\ pos >= Len(input)

\* Parser::next_char: self.input[self.pos..].chars().next()
next_char(input, pos, level) ==
    IF ~ is_char_boundary(input, pos) THEN PPanic(pos)
    ELSE IF pos >= Len(input)
         THEN PErr(pos, ParserError(level, "error: next_char()"))
         ELSE POk(pos, input[pos + 1])

\* Parser::consume_char: the cursor moves to the offset of the following
\* character, and by 1 byte (iter.next().unwrap_or((1, ' '))) past the last
consume_char(input, pos, level) ==
    IF ~ is_char_boundary(input, pos) THEN PPanic(pos)
    ELSE IF pos >= Len(input)
         THEN PErr(pos, ParserError(level, "error: consume_char()"))
         ELSE LET cur_char == input[pos + 1] IN
              IF pos + 1 < Len(input) \/ len_utf8(cur_char) = 1
              THEN POk(pos + 1, cur_char)
              ELSE POk(OffBoundary, cur_char)

\* The loop shared by consume_while and consume_except_whitespace: take
\* characters while f holds, f(c) being (c \in set) = member; Err(name) when
\* none was taken.
RECURSIVE ConsumeLoop(_, _, _, _, _, _, _)
ConsumeLoop(input, pos, s, set, member, level, name) ==
    LET \* the end of the loop: `if s.is_empty() { Err } else { Ok(s) }`
        Stop == IF s = << >> THEN PErr(pos, ParserError(level, name)) ELSE POk(pos, s)
        \* s.push(self.consume_char()?)
        Taken(cc) ==
            IF cc.st # "ok" THEN cc
            ELSE ConsumeLoop(input, cc.pos, Append(s, cc.val), set, member, level, name)
        \* f(self.next_char()?)
        Peeked(nc) ==
            IF nc.st = "panic" THEN PPanic(pos)
            ELSE IF nc.st = "err" THEN PErr(pos, nc.err)
            ELSE IF (nc.val \in set) = member
                 THEN The({ Taken(cc) : cc \in { consume_char(input, pos, level) } })
                 ELSE Stop
    IN  IF eof(input, pos) THEN Stop
        ELSE The({ Peeked(nc) : nc \in { next_char(input, pos, level) } })

\* Parser::consume_while(f)
consume_while(input, pos, set, member, level) ==
    ConsumeLoop(input, pos, << >>, set, member, level, "error: consume_while()")

consume_whitespace(input, pos, level) ==
    consume_while(input, pos, WhitespaceChars, TRUE, level)

skip_whitespace(input, pos, level) ==
    consume_while(input, pos, WhitespaceChars, TRUE, level)

consume_except_whitespace(input, pos, level) ==
    ConsumeLoop(input, pos, << >>, WhitespaceChars, FALSE, level,
                "error: consume_except_whitespace()")

\* The while loop of consume_string, after the opening quote was consumed.
RECURSIVE ConsumeStringLoop(_, _, _, _, _)
ConsumeStringLoop(input, pos, s, quote, level) ==
    LET \* the second quote of a doubled quote: s.push(self.consume_char()?)
        Doubled(s1, c2) ==
            IF c2.st # "ok" THEN c2
            ELSE ConsumeStringLoop(input, c2.pos, Append(s1, c2.val), quote, level)
        \* after a quote: the end of the string unless the quote is doubled
        AfterQuote(p, s1, nc2) ==
            IF eof(input, p) THEN POk(p, s1)
            ELSE IF nc2.st = "panic" THEN PPanic(p)
            ELSE IF nc2.st = "err" THEN PErr(p, nc2.err)
            ELSE IF nc2.val # quote THEN POk(p, s1)
            ELSE The({ Doubled(s1, c2) : c2 \in { consume_char(input, p, level) } })
        \* s.push(self.consume_char()?)
        Taken(nc, cc) ==
            IF cc.st # "ok" THEN cc
            ELSE IF nc.val # quote
            THEN ConsumeStringLoop(input, cc.pos, Append(s, cc.val), quote, level)
            ELSE The({ AfterQuote(cc.pos, Append(s, cc.val), nc2) :
                       nc2 \in { next_char(input, cc.pos, level) } })
        \* self.next_char()?
        Peeked(nc) ==
            IF nc.st = "panic" THEN PPanic(pos)
            ELSE IF nc.st = "err" THEN PErr(pos, nc.err)
            ELSE The({ Taken(nc, cc) : cc \in { consume_char(input, pos, level) } })
    IN  IF eof(input, pos) THEN PErr(pos, ParserError(level, "endless"))
        ELSE The({ Peeked(nc) : nc \in { next_char(input, pos, level) } })

consume_string(input, pos, quote, level) ==
    LET \* s.push(self.consume_char()?): the opening quote
        Opened(first) ==
            IF first.st # "ok" THEN first
            ELSE ConsumeStringLoop(input, first.pos, << quote >>, quote, level)
    IN  The({ Opened(first) : first \in { consume_char(input, pos, level) } })

\* One round of the `while !parser.eof()` loop of check_valid_literal, from
\* the cursor pos: [st, pos, err], st being "continue" (the round ended, the
\* cursor is at pos), "ok" or "err" (the function returned) or "panic"
CheckValidBody(s, pos, level) ==
    LET \* return OwsqlError::new(error_level, err_msg, &s)
        Returned(p, e) == [st |-> e.st, pos |-> p, err |-> e.err]
        \* `if parser.consume_string(quote).is_err() { return OwsqlError::new(..) }`
        Scanned(cs) ==
            IF cs.st = "panic" THEN [st |-> "panic", pos |-> cs.pos, err |-> AnyError]
            ELSE IF cs.st = "err"
                 THEN Returned(cs.pos, OwsqlErrorNew(level, "invalid literal", s))
                 ELSE [st |-> "continue", pos |-> cs.pos, err |-> AnyError]
        \* `match parser.next_char() { Ok(c) if c == '"' || c == '\'' => .. }`
        Peeked(cw, nc) ==
            IF cw.st = "panic" \/ nc.st = "panic"
            THEN [st |-> "panic", pos |-> cw.pos, err |-> AnyError]
            ELSE IF nc.st = "ok" /\ nc.val \in { DQ, SQ }
            THEN The({ Scanned(cs) : cs \in { consume_string(s, cw.pos, nc.val, level) } })
            ELSE [st |-> "continue", pos |-> cw.pos, err |-> AnyError]
        \* parser.consume_while(|c| c != '"' && c != '\'').ok()
        Skipped(cw) == The({ Peeked(cw, nc) : nc \in { next_char(s, cw.pos, level) } })
    IN  The({ Skipped(cw) : cw \in { consume_while(s, pos, { DQ, SQ }, FALSE, level) } })

\* check_valid_literal(s, error_level): [st, err], st "ok", "err" or "panic"
RECURSIVE CheckValidLoop(_, _, _)
CheckValidLoop(s, pos, level) ==
    LET Iterated(r) ==
            IF r.st = "continue" THEN CheckValidLoop(s, r.pos, level)
            ELSE [st |-> r.st, err |-> r.err]
    IN  IF eof(s, pos) THEN [st |-> "ok", err |-> AnyError]
        ELSE The({ Iterated(r) : r \in { CheckValidBody(s, pos, level) } })

check_valid_literal(s, level) == CheckValidLoop(s, 0, level)

\* escape_for_allowlist(value): consume_string over 'value', at the default level
escape_for_allowlist(value) ==
    LET \* .unwrap_or_default()
        Scanned(r) == IF r.st = "ok" THEN r.val ELSE << >>
    IN  Scanned(consume_string(<< SQ >> \o value \o << SQ >>, 0, SQ, "Develop"))

\* An escape_string that doubles nothing
EscapeNothing(s, must_escape_set) == s

\* escape_string(s, is_escape_char), the predicate given as a set
RECURSIVE escape_string(_, _)
escape_string(s, must_escape) ==
    IF s = << >> THEN << >>
    ELSE (IF Head(s) \in must_escape THEN << Head(s), Head(s) >> ELSE << Head(s) >>)
         \o escape_string(Tail(s), must_escape)

\* The dialect's must_escape predicate
must_escape(db) == IF db = "Sqlite" THEN { SQ } ELSE { SQ, BS }

(***************************************************************************)
(* BidiMap<A, B>: two hash maps, key_value and value_key.                  *)
(***************************************************************************)
BidiNew == [key_value |-> << >>, value_key |-> << >>]

\* BidiMap::entry_or_insert, which Connection calls as insert
entry_or_insert(m, a, b) ==
    IF a \in DOMAIN m.key_value THEN m
    ELSE [key_value |-> (a :> b) @@ m.key_value,
          value_key |-> (b :> a) @@ m.value_key]

\* A get_reverse that answers with the placeholder itself
GetReverseNothing(m, b) == b

contain(m, a)         == a \in DOMAIN m.key_value
contain_reverse(m, b) == b \in DOMAIN m.value_key
get(m, a)             == m.key_value[a]
get_reverse(m, b)     == m.value_key[b]

(***************************************************************************)
(* Tokenizer and rewriter.                                                 *)
(***************************************************************************)
NoToken == [type |-> "None", val |-> << >>]
Token(type, val) == [type |-> type, val |-> val]

\* The registry no operation of Connection fills.
whitespace_around == BidiNew

\* The `while let Ok(s) = parser.consume_except_whitespace()` loop of tokenize
RECURSIVE WordLoop(_, _, _, _, _, _, _, _)
WordLoop(stmt, pos, string, whitespace, ow, wa, em, level) ==
    LET \* whitespace = parser.consume_whitespace().unwrap_or_default()
        Spaced(w, string1, ws) ==
            IF ws.st = "panic"
            THEN [st |-> "panic", pos |-> w.pos, string |-> string1, overwrite |-> NoToken]
            ELSE WordLoop(stmt, ws.pos, string1, ws.val, ow, wa, em, level)
        \* the body of the loop on the word s
        Word(w) ==
            IF w.st = "panic"
            THEN [st |-> "panic", pos |-> pos, string |-> string, overwrite |-> NoToken]
            ELSE IF w.st = "err"
            THEN [st |-> "end", pos |-> pos, string |-> string, overwrite |-> NoToken]
            ELSE IF contain_reverse(ow, w.val)
            THEN [st |-> "break", pos |-> w.pos, string |-> string,
                  overwrite |-> Token("Overwrite", w.val)]
            ELSE IF contain_reverse(em, w.val)
            THEN [st |-> "break", pos |-> w.pos, string |-> string,
                  overwrite |-> Token("ErrOverwrite", w.val)]
            ELSE IF contain_reverse(wa, w.val) /\ whitespace = << >>
            THEN [st |-> "panic", pos |-> w.pos, string |-> string, overwrite |-> NoToken]
            ELSE The({ Spaced(w,
                              IF contain_reverse(wa, w.val)
                              THEN string \o SubSeq(whitespace, 1, Len(whitespace) - 1)
                                          \o get_reverse(wa, w.val)
                              ELSE string \o whitespace \o w.val,
                              ws) :
                       ws \in { consume_whitespace(stmt, w.pos, level) } })
    IN  The({ Word(w) : w \in { consume_except_whitespace(stmt, pos, level) } })

\* A loop that ends the literal after its first word
UntilOwFirstWord(stmt, pos, string, starts_wa, ow, wa, em, level) ==
    [st |-> "end", pos |-> pos, string |-> string, overwrite |-> NoToken]

\* The `'untilow: while !parser.eof()` loop of tokenize
RECURSIVE UntilOw(_, _, _, _, _, _, _, _)
UntilOw(stmt, pos, string, starts_wa, ow, wa, em, level) ==
    LET \* after the inner loop: `break 'untilow` or the next round
        Words(r) ==
            IF r.st = "end"
            THEN UntilOw(stmt, r.pos, r.string, starts_wa, ow, wa, em, level)
            ELSE r
        \* whitespace = parser.consume_whitespace().unwrap_or_default()
        Spaced(ws) ==
            IF ws.st = "panic" \/ (starts_wa /\ ws.val = << >>)
            THEN [st |-> "panic", pos |-> pos, string |-> string, overwrite |-> NoToken]
            ELSE The({ Words(r) :
                       r \in { WordLoop(stmt, ws.pos, string,
                                        IF starts_wa THEN Tail(ws.val) ELSE ws.val,
                                        ow, wa, em, level) } })
    IN  IF eof(stmt, pos)
        THEN [st |-> "end", pos |-> pos, string |-> string, overwrite |-> NoToken]
        ELSE The({ Spaced(ws) : ws \in { consume_whitespace(stmt, pos, level) } })

\* A round of tokenize that consumes nothing
TokenizeBodyStuck(stmt, pos, tokens, me, ow, wa, em, level, dbg) ==
    [st |-> "continue", pos |-> pos, tokens |-> tokens, err |-> AnyError]

\* One round of the `while !parser.eof()` loop of tokenize, from the cursor
\* pos: [st, pos, tokens, err], st being "continue" (the round ended, the
\* cursor is at pos), "err" (the function returned through `?`) or "panic"
TokenizeBody(stmt, pos, tokens, me, ow, wa, em, level, dbg) ==
    LET \* the end of the round
        Continue(p, toks) ==
            [st |-> "continue", pos |-> p, tokens |-> toks, err |-> AnyError]
        \* tokens.push(TokenType::String(format!("'{}'", string))), then the
        \* overwrite token that ended the literal
        Pushed(r, literal) ==
            Continue(r.pos,
                     IF r.overwrite.type = "None"
                     THEN Append(tokens, literal)
                     ELSE tokens \o << literal, r.overwrite >>)
        \* debug_assert!(!string.is_empty())
        Escaped(r, escaped) ==
            IF r.st = "panic" \/ (dbg /\ escaped = << >>)
            THEN [st |-> "panic", pos |-> r.pos, tokens |-> tokens, err |-> AnyError]
            ELSE Pushed(r, Token("String", << SQ >> \o escaped \o << SQ >>))
        \* string = escape_string(&string, ..)
        Literal(r) ==
            The({ Escaped(r, escaped) : escaped \in { escape_string(r.string, me) } })
        \* `let mut string = parser.consume_except_whitespace()?` and what
        \* tokenize does with that word
        Word(w) ==
            IF w.st # "ok"
            THEN [st |-> w.st, pos |-> w.pos, tokens |-> tokens, err |-> w.err]
            ELSE IF contain_reverse(ow, w.val)
            THEN Continue(w.pos, Append(tokens, Token("Overwrite", w.val)))
            ELSE IF contain_reverse(em, w.val)
            THEN Continue(w.pos, Append(tokens, Token("ErrOverwrite", w.val)))
            ELSE The({ Literal(r) :
                       r \in { UntilOw(stmt, w.pos,
                                       IF contain_reverse(wa, w.val)
                                       THEN get_reverse(wa, w.val) ELSE w.val,
                                       contain_reverse(wa, w.val), ow, wa, em, level) } })
        \* `if parser.next_char().is_ok() { .. }`
        Peeked(sk, nc) ==
            IF sk.st = "panic" \/ nc.st = "panic"
            THEN [st |-> "panic", pos |-> sk.pos, tokens |-> tokens, err |-> AnyError]
            ELSE IF nc.st = "err"
            THEN Continue(sk.pos, tokens)
            ELSE The({ Word(w) : w \in { consume_except_whitespace(stmt, sk.pos, level) } })
        \* parser.skip_whitespace().ok()
        Skipped(sk) == The({ Peeked(sk, nc) : nc \in { next_char(stmt, sk.pos, level) } })
    IN  The({ Skipped(sk) : sk \in { skip_whitespace(stmt, pos, level) } })

\* The `while !parser.eof()` loop of tokenize: [st, tokens, err]
RECURSIVE TokenizeLoop(_, _, _, _, _, _, _, _, _)
TokenizeLoop(stmt, pos, tokens, me, ow, wa, em, level, dbg) ==
    LET Iterated(r) ==
            IF r.st = "continue"
            THEN TokenizeLoop(stmt, r.pos, r.tokens, me, ow, wa, em, level, dbg)
            ELSE [st |-> r.st, tokens |-> r.tokens, err |-> r.err]
    IN  IF eof(stmt, pos) THEN [st |-> "ok", tokens |-> tokens, err |-> AnyError]
        ELSE The({ Iterated(r) :
                   r \in { TokenizeBody(stmt, pos, tokens, me, ow, wa, em, level, dbg) } })

tokenize(stmt, me, ow, wa, em, level, dbg) ==
    TokenizeLoop(stmt, 0, << >>, me, ow, wa, em, level, dbg)

\* A rewrite loop that inserts no space after a token
RECURSIVE RewriteNoSpace(_, _, _, _)
RewriteNoSpace(tokens, query, ow, em) ==
    IF tokens = << >> THEN [st |-> "ok", sql |-> query, err |-> AnyError]
    ELSE IF Head(tokens).type = "ErrOverwrite"
         THEN [st |-> "err", sql |-> << >>, err |-> get_reverse(em, Head(tokens).val)]
         ELSE RewriteNoSpace(Tail(tokens),
                             query \o (IF Head(tokens).type = "Overwrite"
                                       THEN get_reverse(ow, Head(tokens).val)
                                       ELSE Head(tokens).val),
                             ow, em)

\* The `for token in tokens` loop of convert_to_valid_syntax: [st, sql, err]
RECURSIVE RewriteLoop(_, _, _, _)
RewriteLoop(tokens, query, ow, em) ==
    IF tokens = << >> THEN [st |-> "ok", sql |-> query, err |-> AnyError]
    ELSE LET token == Head(tokens) IN
         IF token.type = "ErrOverwrite"
         THEN [st |-> "err", sql |-> << >>, err |-> get_reverse(em, token.val)]
         ELSE RewriteLoop(Tail(tokens),
                          query \o (IF token.type = "Overwrite"
                                    THEN get_reverse(ow, token.val)
                                    ELSE token.val) \o << SP >>,
                          ow, em)

convert_to_valid_syntax(stmt, me, ow, wa, em, level, dbg) ==
    LET \* `let tokens = self.tokenize(stmt)?` and the loop over them
        Rewritten(t) ==
            IF t.st # "ok" THEN [st |-> t.st, sql |-> << >>, err |-> t.err]
            ELSE RewriteLoop(t.tokens, << >>, ow, em)
    IN  Rewritten(tokenize(stmt, me, ow, wa, em, level, dbg))

(***************************************************************************)
(* Inputs the application passes.                                          *)
(***************************************************************************)
Dialects == { "Sqlite", "Mysql", "Postgresql" }

\* Strings the application passes
S_a      == << "a" >>                       \* a
S_b      == << "b" >>                       \* b
S_qa     == << SQ, "a", SQ >>               \* 'a'
S_aqb    == << "a", SQ, "b" >>              \* a'b
S_aq     == << "a", SQ >>                   \* a'
S_aqqb   == << "a", SQ, SQ, "b" >>          \* a''b
S_awide  == << "a", WIDE >>                 \* a then a two-byte character
S_42     == << "4", "2" >>                  \* 42
S_42a    == << "4", "2", SP, "a" >>         \* 42 a
S_p42    == << "+", "4", "2" >>             \* +42
S_042    == << "0", "4", "2" >>             \* 042
S_m42    == << "-", "4", "2" >>             \* -42
S_absq   == << "a", BS, SQ >>               \* a\'
S_adq    == << "a", DQ >>                   \* a"

(***************************************************************************)
(* Connection.                                                             *)
(***************************************************************************)
NoCall   == [op |-> "none", arg |-> << >>, st |-> "ok", ret |-> << >>]
NoResult == [op |-> "none", st |-> "ok", sql |-> << >>, err |-> AnyError]

Call(op, arg, st, ret) == [op |-> op, arg |-> arg, st |-> st, ret |-> ret]
Part(kind, arg, text)  == [kind |-> kind, arg |-> arg, text |-> text]

\* The text of the composed query
RECURSIVE Query(_)
Query(ps) == IF ps = << >> THEN << >> ELSE Head(ps).text \o Query(Tail(ps))

\* overwrite_new(serial, range): the placeholder minted, its length being len
overwrite_new(serial, len) == << Ph(serial, len) >>

\* The lengths overwrite_new may choose under ow_len_range
MintLens(range) == range[1] .. range[2]

\* format!(" {} ", placeholder)
Padded(ph) == << SP >> \o ph \o << SP >>

\* `if !reg.contain(&k) { reg.insert(k, overwrite_new(serial.get(), range)) }`
\* followed by reg.get(&k): the registry afterwards, once the length is drawn
CheckThenInsert(reg, k, len) ==
    IF contain(reg, k) THEN reg
    ELSE entry_or_insert(reg, k, overwrite_new(serial_number, len))

\* A serial number that does not advance
SerialStuck(reg, k) == serial_number

\* The serial number after that check-then-insert
SerialAfter(reg, k) == IF contain(reg, k) THEN serial_number ELSE serial_number + 1

\* A registration into `overwrite`, returning its padded placeholder
RegisterFragment(op, arg, s) ==
    /\ \E len \in MintLens(ow_len_range) :
         LET reg == CheckThenInsert(overwrite, s, len) IN
         /\ overwrite' = reg
         /\ serial_number' = SerialAfter(overwrite, s)
         /\ last' = Call(op, arg, "ok", Padded(get(reg, s)))
    /\ UNCHANGED error_msg

\* A registration of the deferred error e into `error_msg`
RegisterError(op, arg, e) ==
    /\ \E len \in MintLens(ow_len_range) :
         LET reg == CheckThenInsert(error_msg, e, len) IN
         /\ error_msg' = reg
         /\ serial_number' = SerialAfter(error_msg, e)
         /\ last' = Call(op, arg, "ok", Padded(get(reg, e)))
    /\ UNCHANGED overwrite

\* The call panics: nothing is registered and nothing is returned
Panics(op, arg) ==
    /\ last' = Call(op, arg, "panic", << >>)
    /\ UNCHANGED << overwrite, error_msg, serial_number >>

\* Connection::ow
Ow(s) ==
    LET \* match check_valid_literal(s.as_ref(), &self.error_level)
        Checked(r) ==
            CASE r.st = "ok"  -> RegisterFragment("ow", s, s)
              [] r.st = "err" -> RegisterError("ow", s, r.err)
              [] OTHER        -> Panics("ow", s)
    IN
    /\ Checked(check_valid_literal(s, error_level))
    /\ result' = NoResult
    /\ UNCHANGED << db_type, debug_assertions, allowlist, ow_len_range,
                    error_level, parts, bidimap,
                    parser, scan, threads, borrow >>

\* A single_quotaion_escape that doubles nothing
QuotaionEscapeNothing(s) == s

\* single_quotaion_escape / single_quotaion_and_backslash_escape
single_quotaion_escape(s)               == escape_string(s, { SQ })
single_quotaion_and_backslash_escape(s) == escape_string(s, { SQ, BS })

\* Connection::ow_without_html_escape
OwWithoutHtmlEscape(value) ==
    LET \* match check_valid_literal(&s, &self.error_level)
        Checked(s, r) ==
            CASE r.st = "ok"  -> RegisterFragment("ow_without_html_escape", value, s)
              [] r.st = "err" -> RegisterError("ow_without_html_escape", value, r.err)
              [] OTHER        -> Panics("ow_without_html_escape", value)
        \* the quoted value
        Quoted(s) == Checked(s, check_valid_literal(s, error_level))
    IN
    /\ Quoted(IF db_type = "Sqlite"
              THEN << SQ >> \o single_quotaion_escape(value) \o << SQ >>
              ELSE << SQ >> \o single_quotaion_and_backslash_escape(value) \o << SQ >>)
    /\ result' = NoResult
    /\ UNCHANGED << db_type, debug_assertions, allowlist, ow_len_range,
                    error_level, parts, bidimap,
                    parser, scan, threads, borrow >>

\* An is_allowlist that takes every value as allowlisted
IsAllowlistAlways(value) == TRUE

\* Connection::is_allowlist
is_allowlist(value) == value \in allowlist

\* OwsqlError::new(..).err().unwrap_or(OwsqlError::AnyError)
ErrOrAny(r) == IF r.st = "err" THEN r.err ELSE AnyError

\* Connection::allowlist
Allowlist(value) ==
    /\ IF is_allowlist(value)
       THEN LET \* self.overwrite.get(&escape_for_allowlist(value)).unwrap()
                Registered(k) ==
                    IF contain(overwrite, k)
                    THEN /\ last' = Call("allowlist", value, "ok",
                                         Padded(get(overwrite, k)))
                         /\ UNCHANGED << overwrite, error_msg, serial_number >>
                    ELSE Panics("allowlist", value)      \* unwrap() on None
            IN  Registered(escape_for_allowlist(value))
       ELSE RegisterError("allowlist", value,
                          ErrOrAny(OwsqlErrorNew(error_level, "deny value", value)))
    /\ result' = NoResult
    /\ UNCHANGED << db_type, debug_assertions, allowlist, ow_len_range,
                    error_level, parts, bidimap,
                    parser, scan, threads, borrow >>

\* A loop of add_allowlist that fills the set and mints, but registers nothing
AddLoopSetOnly(params, set, reg, serial, len) ==
    [allowlist |-> set \cup { params[i] : i \in 1 .. Len(params) },
     overwrite |-> reg, serial |-> serial + Len(params)]

\* The `for value in params` loop of add_allowlist: [allowlist, overwrite, serial]
RECURSIVE AddLoop(_, _, _, _, _)
AddLoop(params, set, reg, serial, len) ==
    IF params = << >> THEN [allowlist |-> set, overwrite |-> reg, serial |-> serial]
    ELSE AddLoop(Tail(params),
                 set \cup { Head(params) },
                 entry_or_insert(reg, escape_for_allowlist(Head(params)),
                                 overwrite_new(serial, len)),
                 serial + 1, len)

\* Connection::add_allowlist
AddAllowlist(params) ==
    /\ \E len \in MintLens(ow_len_range) :
         LET Added(r) ==
                 /\ allowlist' = r.allowlist
                 /\ overwrite' = r.overwrite
                 /\ serial_number' = r.serial
         IN  Added(AddLoop(params, allowlist, overwrite, serial_number, len))
    /\ last' = Call("add_allowlist", params, "ok", << >>)
    /\ result' = NoResult
    /\ UNCHANGED << db_type, debug_assertions, ow_len_range, error_msg,
                    error_level, parts, bidimap,
                    parser, scan, threads, borrow >>

(***************************************************************************)
(* str::parse::<i64>: an optional sign, then one or more decimal digits    *)
(* whose value fits 64 bits.                                               *)
(***************************************************************************)
Digits == << "0", "1", "2", "3", "4", "5", "6", "7", "8", "9" >>
IsDigit(c) == \E i \in 1 .. Len(Digits) : Digits[i] = c
DigitVal(c) == (CHOOSE i \in 1 .. Len(Digits) : Digits[i] = c) - 1

\* The digits of 2^63 - 1 and of 2^63
I64MaxDigits == << "9","2","2","3","3","7","2","0","3","6","8","5","4","7","7","5","8","0","7" >>
I64MinDigits == << "9","2","2","3","3","7","2","0","3","6","8","5","4","7","7","5","8","0","8" >>

RECURSIVE StripZeros(_)
StripZeros(d) == IF d # << >> /\ Head(d) = "0" THEN StripZeros(Tail(d)) ELSE d

\* d <= e for digit strings of equal length
RECURSIVE DigitsLeq(_, _)
DigitsLeq(d, e) ==
    IF d = << >> THEN TRUE
    ELSE IF DigitVal(Head(d)) # DigitVal(Head(e))
         THEN DigitVal(Head(d)) < DigitVal(Head(e))
         ELSE DigitsLeq(Tail(d), Tail(e))

FitsI64(digits, negative) ==
    LET d     == StripZeros(digits)
        limit == IF negative THEN I64MinDigits ELSE I64MaxDigits
    IN  \/ Len(d) < Len(limit)
        \/ Len(d) = Len(limit) /\ DigitsLeq(d, limit)

parse_i64_is_ok(value) ==
    LET signed == value # << >> /\ Head(value) \in { "+", "-" }
        digits == IF signed THEN Tail(value) ELSE value
    IN  /\ digits # << >>
        /\ \A i \in 1 .. Len(digits) : IsDigit(digits[i])
        /\ FitsI64(digits, signed /\ Head(value) = "-")

\* Connection::int
int(value) ==
    /\ IF parse_i64_is_ok(value)
       THEN RegisterFragment("int", value, value)
       ELSE RegisterError("int", value,
                          ErrOrAny(OwsqlErrorNew(error_level, "non integer", value)))
    /\ result' = NoResult
    /\ UNCHANGED << db_type, debug_assertions, allowlist, ow_len_range,
                    error_level, parts, bidimap,
                    parser, scan, threads, borrow >>

\* Connection::set_ow_len, range being range.into_inner()
SetOwLen(range) ==
    /\ ow_len_range' =
         << IF range[1] < OW_MINIMUM_LENGTH THEN OW_MINIMUM_LENGTH ELSE range[1],
            IF range[2] < OW_MINIMUM_LENGTH THEN OW_MINIMUM_LENGTH ELSE range[2] >>
    /\ last' = Call("set_ow_len", range, "ok", << >>)
    /\ result' = NoResult
    /\ UNCHANGED << db_type, debug_assertions, allowlist, serial_number, overwrite,
                    error_msg, error_level, parts, bidimap,
                    parser, scan, threads, borrow >>

\* Connection::error_level
ErrorLevel(level) ==
    /\ IF ~ debug_assertions /\ level = "Debug"
       THEN /\ last' = Call("error_level", level, "err", << >>)
            /\ UNCHANGED error_level
       ELSE /\ last' = Call("error_level", level, "ok", << >>)
            /\ error_level' = level
    /\ result' = NoResult
    /\ UNCHANGED << db_type, debug_assertions, allowlist, serial_number, ow_len_range,
                    overwrite, error_msg, parts, bidimap,
                    parser, scan, threads, borrow >>

\* The application concatenates raw text to the query
Raw(v) ==
    /\ parts' = Append(parts, Part("raw", v, v))
    /\ last' = NoCall
    /\ result' = NoResult
    /\ UNCHANGED << db_type, debug_assertions, allowlist, serial_number, ow_len_range,
                    overwrite, error_msg, error_level, bidimap,
                    parser, scan, threads, borrow >>

\* The application concatenates the string its last call returned
Push ==
    /\ last.st = "ok"
    /\ last.op \in { "ow", "ow_without_html_escape", "allowlist", "int" }
    /\ parts' = Append(parts, Part(last.op, last.arg, last.ret))
    /\ last' = NoCall
    /\ result' = NoResult
    /\ UNCHANGED << db_type, debug_assertions, allowlist, serial_number, ow_len_range,
                    overwrite, error_msg, error_level, bidimap,
                    parser, scan, threads, borrow >>

\* Connection::convert_to_valid_syntax on the composed query
Pipeline ==
    convert_to_valid_syntax(Query(parts), must_escape(db_type), overwrite,
                            whitespace_around, error_msg, error_level,
                            debug_assertions)

\* actual_sql, execute and iterate all run the pipeline on the query
Run(op) ==
    /\ LET Outcome(p) == [op |-> op, st |-> p.st, sql |-> p.sql, err |-> p.err]
       IN  result' = Outcome(Pipeline)
    /\ last' = NoCall
    /\ UNCHANGED << db_type, debug_assertions, allowlist, serial_number, ow_len_range,
                    overwrite, error_msg, error_level, parts, bidimap,
                    parser, scan, threads, borrow >>

\* Connection::actual_sql
ActualSql == Run("actual_sql")

\* Connection::execute: the driver is given the pipeline's result
Execute == Run("execute")

\* Connection::iterate
Iterate == Run("iterate")

\* The ranges given to set_ow_len, after into_inner
LenRanges ==
    { << a, b >> : a \in (OW_MINIMUM_LENGTH - 1) .. (OW_MINIMUM_LENGTH + MaxExtra),
                   b \in (OW_MINIMUM_LENGTH - 1) .. (OW_MINIMUM_LENGTH + MaxExtra) }
    \cap { r \in Nat \X Nat : r[1] <= r[2] }

\* The application starts composing a new query
NewQuery ==
    /\ parts' = << >>
    /\ last' = NoCall
    /\ result' = NoResult
    /\ UNCHANGED << db_type, debug_assertions, allowlist, serial_number, ow_len_range,
                    overwrite, error_msg, error_level, bidimap,
                    parser, scan, threads, borrow >>

\* Parser::new(input, error_level); `ret` is what the last consume_char
\* returned and `from` the cursor it was called at
ParserNew(input) ==
    [input |-> input, pos |-> 0, st |-> "new", ret |-> "", from |-> 0]

\* No scan has been started
NoScan == [fn |-> "none", input |-> << >>, pos |-> 0, tokens |-> << >>,
           st |-> "ok", err |-> AnyError]

\* No thread has entered ow
NoThreads == << >>

\* The RefCell fields of Connection that ow goes through
Cells == { "overwrite", "serial_number" }

\* RefCell::new: the borrow flag is UNUSED
UNUSED == 0
NoBorrow == [c \in Cells |-> UNUSED]

\* The state open() returns
Init ==
    /\ db_type \in Dialects
    /\ debug_assertions \in BOOLEAN
    /\ allowlist = { }
    /\ serial_number = 0
    /\ ow_len_range = << OW_MINIMUM_LENGTH, OW_MINIMUM_LENGTH >>
    /\ overwrite = BidiNew
    /\ error_msg = BidiNew
    /\ error_level = IF debug_assertions THEN "Develop" ELSE "Release"
    /\ last = NoCall
    /\ parts = << >>
    /\ result = NoResult
    /\ bidimap = BidiNew
    /\ parser = ParserNew(<< >>)
    /\ scan = NoScan
    /\ threads = NoThreads
    /\ borrow = NoBorrow

\* BidiMap::entry_or_insert on a map of its own
BidiEntryOrInsert(a, b) ==
    /\ bidimap' = entry_or_insert(bidimap, a, b)
    /\ UNCHANGED << db_type, debug_assertions, allowlist, serial_number, ow_len_range,
                    overwrite, error_msg, error_level, last, parts, result,
                    parser, scan, threads, borrow >>

(***************************************************************************)
(* Spec: registrations of one Connection under changes of its settings.    *)
(***************************************************************************)
Next ==
    \/ \E s \in { S_qa, S_aqb } : Ow(s) /\ serial_number' <= MaxSettingsSerial
    \/ \E ps \in { << S_a >> } : AddAllowlist(ps) /\ serial_number' <= MaxSettingsSerial
    \/ \E v \in { S_42 } : int(v) /\ serial_number' <= MaxSettingsSerial
    \/ \E r \in LenRanges : SetOwLen(r)
    \/ \E l \in ErrorLevels : ErrorLevel(l)

Spec == Init /\ [][Next]_vars

(***************************************************************************)
(* SpecMint: every call that mints a placeholder.                          *)
(***************************************************************************)
NextMint ==
    \/ \E s \in { S_qa, S_aqb } : Ow(s) /\ serial_number' <= MaxSerial
    \/ \E v \in { S_aqb } : OwWithoutHtmlEscape(v) /\ serial_number' <= MaxSerial
    \/ \E v \in { S_a, S_b, S_aqb } : Allowlist(v) /\ serial_number' <= MaxSerial
    \/ \E ps \in { << S_a >>, << S_aqb >>, << S_a, S_b >> } :
          AddAllowlist(ps) /\ serial_number' <= MaxSerial
    \/ \E v \in { S_42, S_42a } : int(v) /\ serial_number' <= MaxSerial

SpecMint == Init /\ [][NextMint]_vars

(***************************************************************************)
(* SpecOw: fragments given to ow at every error level, each then run alone *)
(* as a query.                                                             *)
(***************************************************************************)
\* a'b  a"b  'a'b'  'a''b'  'a"b'  "a'b"  'a', 'b'  and a two-byte character
\* then a
OwFragments ==
    { S_aqb,
      << "a", DQ, "b" >>,
      << SQ, "a", SQ, "b", SQ >>,
      << SQ, "a", SQ, SQ, "b", SQ >>,
      << SQ, "a", DQ, "b", SQ >>,
      << DQ, "a", SQ, "b", DQ >>,
      << SQ, "a", SQ, ",", SP, SQ, "b", SQ >>,
      << WIDE, "a" >> }

NextOw ==
    \/ \E s \in OwFragments : Ow(s) /\ serial_number' <= MaxOwSerial
    \/ \E l \in ErrorLevels : ErrorLevel(l)
    \/ Push /\ Len(parts') <= MaxOwParts
    \/ ActualSql

SpecOw == Init /\ [][NextOw]_vars

(***************************************************************************)
(* SpecTokenize: every short query text, under a registry that holds a     *)
(* trusted fragment and a deferred error.                                  *)
(***************************************************************************)
\* The characters of a query: text, a quote, a backslash, a space, a two-byte
\* character, and the placeholders the registries may hold
QueryChars ==
    { "a", SQ, BS, SP, WIDE } \cup { Ph(n, OW_MINIMUM_LENGTH) : n \in 0 .. (MaxQuerySerial - 1) }

RECURSIVE Strings(_, _)
Strings(alphabet, n) ==
    IF n = 0 THEN { << >> }
    ELSE LET shorter == Strings(alphabet, n - 1) IN
         shorter \cup { Append(s, c) : s \in shorter, c \in alphabet }

QueryStrings == Strings(QueryChars, MaxQueryLen)

NextTokenize ==
    \/ \E s \in { S_b, S_aqb } : Ow(s) /\ serial_number' <= MaxQuerySerial
    \/ \E v \in QueryStrings : Raw(v) /\ Len(parts') <= MaxQueryParts
    \/ NewQuery
    \/ ActualSql

SpecTokenize == Init /\ [][NextTokenize]_vars

(***************************************************************************)
(* SpecAllow: the allowlist.                                               *)
(***************************************************************************)
NextAllow ==
    \/ \E ps \in { << S_a >>, << S_aqb >>, << S_aq >>, << S_aqqb, S_a >> } :
          AddAllowlist(ps) /\ serial_number' <= MaxSerial
    \/ \E v \in { S_a, S_qa, S_aqb, S_aq } : Allowlist(v) /\ serial_number' <= MaxSerial
    \/ Push /\ Len(parts') <= MaxAllowParts
    \/ NewQuery
    \/ ActualSql
    \/ Execute

SpecAllow == Init /\ [][NextAllow]_vars

(***************************************************************************)
(* SpecDeferred: rejected arguments, and the queries built from what the   *)
(* calls returned.                                                         *)
(***************************************************************************)
NextDeferred ==
    \/ \E s \in { S_qa, S_aqb, S_awide } : Ow(s) /\ serial_number' <= MaxDeferredSerial
    \/ \E v \in { S_42a } : int(v) /\ serial_number' <= MaxDeferredSerial
    \/ \E v \in { S_a } : Allowlist(v) /\ serial_number' <= MaxDeferredSerial
    \/ \E l \in ErrorLevels : ErrorLevel(l)
    \/ \E v \in { S_a } : Raw(v) /\ Len(parts') <= MaxParts
    \/ Push /\ Len(parts') <= MaxParts
    \/ NewQuery
    \/ ActualSql
    \/ Execute
    \/ Iterate

SpecDeferred == Init /\ [][NextDeferred]_vars

(***************************************************************************)
(* SpecBidi: a BidiMap under entry_or_insert.                              *)
(***************************************************************************)
NextBidi == \E a \in 1 .. MaxBidi, b \in 1 .. MaxBidi : BidiEntryOrInsert(a, b)

SpecBidi == Init /\ [][NextBidi]_vars

(***************************************************************************)
(* SpecParser: a Parser of its own, stepped by consume_char.               *)
(***************************************************************************)
\* let mut parser = Parser::new(input, &error_level)
ParserStart(input) ==
    /\ parser' = ParserNew(input)
    /\ UNCHANGED << db_type, debug_assertions, allowlist, serial_number, ow_len_range,
                    overwrite, error_msg, error_level, last, parts, result, bidimap,
                    scan, threads, borrow >>

\* parser.consume_char(); a Parser that panicked is gone
ParserConsumeChar ==
    /\ parser.st # "panic"
    /\ LET Consumed(r) ==
               [input |-> parser.input,
                pos   |-> IF r.st = "ok" THEN r.pos ELSE parser.pos,
                st    |-> r.st,
                ret   |-> IF r.st = "ok" THEN r.val ELSE "",
                from  |-> parser.pos]
       IN  parser' = Consumed(consume_char(parser.input, parser.pos, error_level))
    /\ UNCHANGED << db_type, debug_assertions, allowlist, serial_number, ow_len_range,
                    overwrite, error_msg, error_level, last, parts, result, bidimap,
                    scan, threads, borrow >>

\* The inputs of the Parser: one-byte characters, whitespace and a two-byte
\* character, in every position
ParserInputs == Strings({ "a", SP, WIDE }, MaxParserLen)

NextParser ==
    \/ \E input \in ParserInputs : ParserStart(input)
    \/ ParserConsumeChar

SpecParser == Init /\ [][NextParser]_vars

(***************************************************************************)
(* SpecScan: tokenize and check_valid_literal run round by round of their  *)
(* outer loop, over every short text.  A started scan runs to its end      *)
(* before the Connection is called again; a scan that can take a round     *)
(* takes it.                                                               *)
(***************************************************************************)
\* tokenize(stmt, ..): `let mut parser = Parser::new(&stmt, ..)`
TokenizeStart(stmt) ==
    /\ scan.fn = "none"
    /\ scan' = [fn |-> "tokenize", input |-> stmt, pos |-> 0, tokens |-> << >>,
                st |-> "running", err |-> AnyError]
    /\ UNCHANGED << db_type, debug_assertions, allowlist, serial_number, ow_len_range,
                    overwrite, error_msg, error_level, last, parts, result, bidimap,
                    parser, threads, borrow >>

\* The test of `while !parser.eof()` in tokenize, and one round of the loop
TokenizeRound ==
    /\ scan.fn = "tokenize"
    /\ scan.st = "running"
    /\ LET Rounded(r) ==
               [fn |-> scan.fn, input |-> scan.input, pos |-> r.pos,
                tokens |-> r.tokens,
                st |-> IF r.st = "continue" THEN "running" ELSE r.st,
                err |-> r.err]
       IN  scan' = IF eof(scan.input, scan.pos)
                   THEN [scan EXCEPT !.st = "ok"]
                   ELSE The({ Rounded(r) :
                              r \in { TokenizeBody(scan.input, scan.pos, scan.tokens,
                                                   must_escape(db_type), overwrite,
                                                   whitespace_around, error_msg,
                                                   error_level, debug_assertions) } })
    /\ UNCHANGED << db_type, debug_assertions, allowlist, serial_number, ow_len_range,
                    overwrite, error_msg, error_level, last, parts, result, bidimap,
                    parser, threads, borrow >>

\* check_valid_literal(s, ..): `let mut parser = Parser::new(&s, ..)`
CheckStart(s) ==
    /\ scan.fn = "none"
    /\ scan' = [fn |-> "check_valid_literal", input |-> s, pos |-> 0,
                tokens |-> << >>, st |-> "running", err |-> AnyError]
    /\ UNCHANGED << db_type, debug_assertions, allowlist, serial_number, ow_len_range,
                    overwrite, error_msg, error_level, last, parts, result, bidimap,
                    parser, threads, borrow >>

\* The test of `while !parser.eof()` in check_valid_literal, and one round
CheckRound ==
    /\ scan.fn = "check_valid_literal"
    /\ scan.st = "running"
    /\ LET Rounded(r) ==
               [fn |-> scan.fn, input |-> scan.input, pos |-> r.pos,
                tokens |-> scan.tokens,
                st |-> IF r.st = "continue" THEN "running" ELSE r.st,
                err |-> r.err]
       IN  scan' = IF eof(scan.input, scan.pos)
                   THEN [scan EXCEPT !.st = "ok"]
                   ELSE The({ Rounded(r) :
                              r \in { CheckValidBody(scan.input, scan.pos, error_level) } })
    /\ UNCHANGED << db_type, debug_assertions, allowlist, serial_number, ow_len_range,
                    overwrite, error_msg, error_level, last, parts, result, bidimap,
                    parser, threads, borrow >>

\* The return of tokenize or check_valid_literal: the Parser of the call is
\* dropped with its input and its cursor
ScanReturn ==
    /\ scan.fn # "none"
    /\ scan.st # "running"
    /\ scan' = NoScan
    /\ UNCHANGED << db_type, debug_assertions, allowlist, serial_number, ow_len_range,
                    overwrite, error_msg, error_level, last, parts, result, bidimap,
                    parser, threads, borrow >>

\* The characters of a scanned text: text, a quote, a space, a two-byte
\* character and the placeholder the registries may hold
ScanChars ==
    { "a", SQ, SP, WIDE } \cup { Ph(n, OW_MINIMUM_LENGTH) : n \in 0 .. (MaxScanSerial - 1) }

ScanStrings == Strings(ScanChars, MaxScanLen)

NextScan ==
    \/ \E s \in { S_b, S_aqb } :
          Ow(s) /\ serial_number' <= MaxScanSerial /\ scan.fn = "none"
    \/ \E stmt \in ScanStrings : TokenizeStart(stmt)
    \/ TokenizeRound
    \/ \E s \in ScanStrings : CheckStart(s)
    \/ CheckRound
    \/ ScanReturn

SpecScan ==
    Init /\ [][NextScan]_vars /\ WF_vars(TokenizeRound) /\ WF_vars(CheckRound)

(***************************************************************************)
(* SpecThreads: two threads call ow on one Connection, which              *)
(* `unsafe impl Sync for Connection` lets them share.  Each access of ow   *)
(* to a RefCell is three steps of the thread: borrow_mut reads the borrow  *)
(* flag, borrow_mut writes it (or panics), the access itself with the drop *)
(* of the RefMut.  The flag is a plain Cell<isize>, so the steps of the    *)
(* two threads interleave freely; an access made while the other thread    *)
(* is inside the same RefCell is a data race, and has either outcome.      *)
(***************************************************************************)
\* The thread right after `let result = self.check_valid_literal(&s)`, at
\* `self.overwrite.borrow_mut().contain(&s)`
ThreadNew(s) ==
    [s |-> s, pc |-> "contain", phase |-> "enter", seen |-> UNUSED,
     ow |-> << >>, st |-> "running", ret |-> << >>]

\* The RefCell an access of ow goes through
CellOf(pc) == IF pc = "serial" THEN "serial_number" ELSE "overwrite"

\* The other thread is inside the same RefCell
Racing(t) ==
    \E u \in DOMAIN threads :
        /\ u # t
        /\ threads[u].phase = "in"
        /\ CellOf(threads[u].pc) = CellOf(threads[t].pc)

\* What an access can give: its result, and under a data race the result
\* of an access that saw or left nothing
Outcomes(t, normal, torn) == IF Racing(t) THEN { normal, torn } ELSE { normal }

\* std::thread::spawn, twice, of closures that call conn.ow(s)
ThreadsSpawn(s1, s2) ==
    /\ threads = NoThreads
    /\ check_valid_literal(s1, error_level).st = "ok"
    /\ check_valid_literal(s2, error_level).st = "ok"
    /\ threads' = << ThreadNew(s1), ThreadNew(s2) >>
    /\ UNCHANGED << db_type, debug_assertions, allowlist, serial_number, ow_len_range,
                    overwrite, error_msg, error_level, last, parts, result, bidimap,
                    parser, scan, borrow >>

\* RefCell::borrow_mut, first half: `match borrow.get()`
BorrowRead(t) ==
    /\ t \in DOMAIN threads
    /\ threads[t].st = "running"
    /\ threads[t].phase = "enter"
    /\ threads' = [threads EXCEPT ![t].seen = borrow[CellOf(threads[t].pc)],
                                  ![t].phase = "set"]
    /\ UNCHANGED << db_type, debug_assertions, allowlist, serial_number, ow_len_range,
                    overwrite, error_msg, error_level, last, parts, result, bidimap,
                    parser, scan, borrow >>

\* RefCell::borrow_mut, second half: `UNUSED => borrow.set(UNUSED - 1)`,
\* and the panic "already borrowed" on any other flag
BorrowSet(t) ==
    /\ t \in DOMAIN threads
    /\ threads[t].st = "running"
    /\ threads[t].phase = "set"
    /\ IF threads[t].seen = UNUSED
       THEN /\ borrow' = [borrow EXCEPT ![CellOf(threads[t].pc)] = UNUSED - 1]
            /\ threads' = [threads EXCEPT ![t].phase = "in"]
       ELSE /\ borrow' = borrow
            /\ threads' = [threads EXCEPT ![t].st = "panic", ![t].phase = "out"]
    /\ UNCHANGED << db_type, debug_assertions, allowlist, serial_number, ow_len_range,
                    overwrite, error_msg, error_level, last, parts, result, bidimap,
                    parser, scan >>

\* The access the thread borrowed for, and the drop of its RefMut
\* (`borrow.set(borrow.get() + 1)`)
Access(t) ==
    LET me   == threads[t]
        next(pc, th) == [th EXCEPT !.pc = pc, !.phase = "enter"]
    IN
    /\ t \in DOMAIN threads
    /\ me.st = "running"
    /\ me.phase = "in"
    /\ borrow' = [borrow EXCEPT ![CellOf(me.pc)] = @ + 1]
    /\ CASE me.pc = "contain" ->
              \* if !self.overwrite.borrow_mut().contain(&s)
              /\ \E found \in Outcomes(t, contain(overwrite, me.s), FALSE) :
                    threads' = [threads EXCEPT
                                  ![t] = next(IF found THEN "get" ELSE "serial", me)]
              /\ UNCHANGED << overwrite, serial_number >>
         [] me.pc = "serial" ->
              \* overwrite_new(self.serial_number.borrow_mut().get(), ..)
              /\ \E len \in MintLens(ow_len_range) :
                    threads' = [threads EXCEPT
                                  ![t] = next("insert",
                                              [me EXCEPT !.ow = overwrite_new(serial_number, len)])]
              /\ serial_number' \in Outcomes(t, serial_number + 1, serial_number)
              /\ UNCHANGED overwrite
         [] me.pc = "insert" ->
              \* self.overwrite.borrow_mut().insert(s.to_string(), overwrite)
              /\ overwrite' \in Outcomes(t, entry_or_insert(overwrite, me.s, me.ow),
                                         overwrite)
              /\ threads' = [threads EXCEPT ![t] = next("get", me)]
              /\ UNCHANGED serial_number
         [] me.pc = "get" ->
              \* format!(" {} ", self.overwrite.borrow_mut().get(&s).unwrap())
              /\ threads' = [threads EXCEPT
                               ![t] = IF contain(overwrite, me.s)
                                      THEN [me EXCEPT !.st = "ok", !.phase = "out",
                                                      !.ret = Padded(get(overwrite, me.s))]
                                      ELSE [me EXCEPT !.st = "panic", !.phase = "out"]]
              /\ UNCHANGED << overwrite, serial_number >>
    /\ UNCHANGED << db_type, debug_assertions, allowlist, ow_len_range,
                    error_msg, error_level, last, parts, result, bidimap,
                    parser, scan >>

\* The fragments the two threads pass to ow
ThreadFragments == { S_a, S_b }

ThreadIds == { 1, 2 }

NextThreads ==
    \/ \E s1, s2 \in ThreadFragments : ThreadsSpawn(s1, s2)
    \/ \E t \in ThreadIds : BorrowRead(t)
    \/ \E t \in ThreadIds : BorrowSet(t)
    \/ \E t \in ThreadIds : Access(t)

SpecThreads == Init /\ [][NextThreads]_vars

(***************************************************************************)
(* SpecInt: the spellings given to int, each then run alone as a query.    *)
(***************************************************************************)
\* 42, +42, 042, -42, 42 a, and 2^63
IntValues ==
    { S_42, S_p42, S_042, S_m42, S_42a, I64MinDigits }

NextInt ==
    \/ \E v \in IntValues : int(v) /\ serial_number' <= MaxIntSerial
    \/ \E l \in ErrorLevels : ErrorLevel(l)
    \/ Push /\ Len(parts') <= MaxIntParts
    \/ NewQuery
    \/ ActualSql

SpecInt == Init /\ [][NextInt]_vars

(***************************************************************************)
(* SpecQuoted: values given to ow_without_html_escape, each then run alone *)
(* as a query.                                                             *)
(***************************************************************************)
\* a'b  a\'  '  \  a"  a then a two-byte character, and the empty string
QuotedValues ==
    { S_aqb, S_absq, << SQ >>, << BS >>, S_adq, S_awide, << >> }

NextQuoted ==
    \/ \E v \in QuotedValues :
          OwWithoutHtmlEscape(v) /\ serial_number' <= MaxQuotedSerial
    \/ \E l \in ErrorLevels : ErrorLevel(l)
    \/ Push /\ Len(parts') <= MaxQuotedParts
    \/ NewQuery
    \/ ActualSql

SpecQuoted == Init /\ [][NextQuoted]_vars

(***************************************************************************)
(* SpecWords: query texts of words, spaces, tabs and one placeholder, which *)
(* is registered as a trusted fragment or as a deferred error.  No         *)
(* character of these texts is escaped, so one dialect is enough.          *)
(***************************************************************************)
InitWords == Init /\ db_type = "Sqlite"

WordChars == { "a", SP, TAB } \cup { Ph(n, OW_MINIMUM_LENGTH) : n \in 0 .. (MaxWordsSerial - 1) }

WordStrings == Strings(WordChars, MaxWordsLen)

NextWords ==
    \/ \E s \in { S_b, S_aqb } : Ow(s) /\ serial_number' <= MaxWordsSerial
    \/ \E v \in WordStrings : Raw(v) /\ Len(parts') <= MaxWordsParts
    \/ NewQuery
    \/ ActualSql

SpecWords == InitWords /\ [][NextWords]_vars

(***************************************************************************)
(* Properties.                                                             *)
(***************************************************************************)

\* The placeholders a registry holds, one per key
Placeholders(reg) == { reg.key_value[k] : k \in DOMAIN reg.key_value }

\* The placeholder inside the padded string a call returned
Unpadded(ret) == << ret[2] >>

\* The words of q that are placeholders of reg: a placeholder between
\* whitespace or the ends of q
PlaceholderWords(q, reg) ==
    { k \in 1 .. Len(q) :
        /\ << q[k] >> \in DOMAIN reg.value_key
        /\ k = 1 \/ is_whitespace(q[k - 1])
        /\ k = Len(q) \/ is_whitespace(q[k + 1]) }

\* Scanning a literal from the character after its opening quote, a doubled
\* must_escape character not being a terminator: the index of the closing
\* quote, 0 when a must_escape character stands alone or the quote never
\* closes
RECURSIVE LiteralEnd(_, _, _)
LiteralEnd(sql, j, me) ==
    IF j > Len(sql) THEN 0
    ELSE IF sql[j] \notin me THEN LiteralEnd(sql, j + 1, me)
    ELSE IF j < Len(sql) /\ sql[j + 1] = sql[j] THEN LiteralEnd(sql, j + 2, me)
    ELSE IF sql[j] = SQ THEN j
    ELSE 0

\* f stands in sql at index i, followed by a space
FragmentAt(sql, i, f) ==
    /\ i + Len(f) <= Len(sql)
    /\ SubSeq(sql, i, i + Len(f) - 1) = f
    /\ sql[i + Len(f)] = SP

\* sql from index i read as pieces, each followed by one space, a piece being
\* one quoted literal or one fragment of frags: the number of fragments, -1
\* when sql cannot be read so
RECURSIVE BareFragments(_, _, _, _, _)
BareFragments(sql, i, me, frags, n) ==
    IF i > Len(sql) THEN n
    ELSE IF sql[i] = SQ
    THEN LET e == LiteralEnd(sql, i + 1, me) IN
         IF e = 0 \/ e = Len(sql) \/ sql[e + 1] # SP THEN -1
         ELSE BareFragments(sql, e + 2, me, frags, n)
    ELSE IF \E f \in frags : FragmentAt(sql, i, f)
    THEN LET f == CHOOSE g \in frags : FragmentAt(sql, i, g) IN
         BareFragments(sql, i + Len(f) + 1, me, frags, n + 1)
    ELSE -1

\* Every quote opened in f is closed by a matching quote, a doubled quote
\* inside a quoted region not being a terminator
RECURSIVE BalancedFrom(_, _, _)
BalancedFrom(f, i, open) ==
    IF i > Len(f) THEN open = ""
    ELSE IF open = ""
    THEN BalancedFrom(f, i + 1, IF f[i] \in { SQ, DQ } THEN f[i] ELSE "")
    ELSE IF f[i] # open THEN BalancedFrom(f, i + 1, open)
    ELSE IF i < Len(f) /\ f[i + 1] = open THEN BalancedFrom(f, i + 2, open)
    ELSE BalancedFrom(f, i + 1, "")

QuotesBalanced(f) == BalancedFrom(f, 1, "")

\* A single quote, v with every single quote doubled, a single quote
EscapedForm(v) == << SQ >> \o escape_string(v, { SQ }) \o << SQ >>

\* C1: what actual_sql emits is a sequence of pieces, each followed by a
\* space: a trusted fragment for each word of the query that is a registered
\* placeholder, and single-quoted literals in which every must_escape
\* character is doubled, so that the scan of a literal from its opening quote
\* ends at its last character; no other text is emitted outside a literal.
EmittedTextIsQuoted ==
    (result.op = "actual_sql" /\ result.st = "ok") =>
        BareFragments(result.sql, 1, must_escape(db_type),
                      DOMAIN overwrite.key_value, 0)
          = Cardinality(PlaceholderWords(Query(parts), overwrite))

\* C1 happens: a quote and a trusted placeholder in one query
EmittedTextIsQuotedWitness ==
    /\ result.op = "actual_sql" /\ result.st = "ok"
    /\ Len(parts) = 1 /\ parts[1].kind = "raw"
    /\ S_b \in DOMAIN overwrite.key_value
    /\ parts[1].arg = << SQ, SP, overwrite.key_value[S_b][1] >>
    /\ result.sql = << SQ, SQ, SQ, SQ, SP, "b", SP >>

\* C2 (as stated): actual_sql(ow(f)) is f surrounded by single spaces
OwEmitsPaddedFragment ==
    \A f \in DOMAIN overwrite.key_value :
        (/\ result.op = "actual_sql"
         /\ parts = << Part("ow", f, Padded(overwrite.key_value[f])) >>)
        => /\ result.st = "ok"
           /\ result.sql = << SP >> \o f \o << SP >>

\* C2 (amended): for a fragment f that passed the validator, actual_sql(ow(f))
\* succeeds and returns f followed by one space, with no space before it
OwEmitsFragment ==
    \A f \in DOMAIN overwrite.key_value :
        (/\ result.op = "actual_sql"
         /\ parts = << Part("ow", f, Padded(overwrite.key_value[f])) >>)
        => /\ result.st = "ok"
           /\ result.sql = f \o << SP >>

\* C2 happens: 'a''b' was given to ow and what ow returned was run alone
OwEmitsFragmentWitness ==
    /\ result.op = "actual_sql"
    /\ Len(parts) = 1 /\ parts[1].kind = "ow"
    /\ parts[1].arg = << SQ, "a", SQ, SQ, "b", SQ >>
    /\ result.sql = << SQ, "a", SQ, SQ, "b", SQ, SP >>

\* C3: for a raw string v none of whose words is a registered placeholder,
\* actual_sql(v) is a quote, v with each must_escape character doubled, a
\* quote and a space.
RawIsQuotedWhole ==
    (/\ result.op = "actual_sql"
     /\ Len(parts) = 1 /\ parts[1].kind = "raw"
     /\ PlaceholderWords(parts[1].arg, overwrite) = { }
     /\ PlaceholderWords(parts[1].arg, error_msg) = { })
    => /\ result.st = "ok"
       /\ result.sql = << SQ >> \o escape_string(parts[1].arg, must_escape(db_type))
                                \o << SQ, SP >>

\* C4: once a fragment is registered in `overwrite` its placeholder never
\* changes, whatever is called later (ow of other fragments, add_allowlist,
\* int, set_ow_len, error_level), and ow of that fragment returns that same
\* placeholder again.
PlaceholderNeverChanges ==
    [][ \A f \in DOMAIN overwrite.key_value :
          /\ f \in DOMAIN overwrite'.key_value
          /\ overwrite'.key_value[f] = overwrite.key_value[f]
          /\ Ow(f) => /\ last'.st = "ok"
                      /\ last'.ret = Padded(overwrite.key_value[f]) ]_vars

\* C5: the forward and the reverse map of a BidiMap stay in sync and
\* injective: (k, v) is in the forward map iff (v, k) is in the reverse map.
BidiMapInSync ==
    /\ \A k \in DOMAIN bidimap.key_value :
         /\ bidimap.key_value[k] \in DOMAIN bidimap.value_key
         /\ bidimap.value_key[bidimap.key_value[k]] = k
    /\ \A v \in DOMAIN bidimap.value_key :
         /\ bidimap.value_key[v] \in DOMAIN bidimap.key_value
         /\ bidimap.key_value[bidimap.value_key[v]] = v

\* C7: at every error level ow(f) registers f in overwrite iff the quotes of
\* f are balanced; a fragment with an unterminated quote is never added to
\* overwrite and ow returns an error placeholder for it.
OwRegistersIffBalanced ==
    /\ \A f \in DOMAIN overwrite.key_value : QuotesBalanced(f)
    /\ last.op = "ow" =>
         /\ last.st = "ok"
         /\ QuotesBalanced(last.arg) =>
              /\ last.arg \in DOMAIN overwrite.key_value
              /\ last.ret = Padded(overwrite.key_value[last.arg])
         /\ ~ QuotesBalanced(last.arg) =>
              Unpadded(last.ret) \in DOMAIN error_msg.value_key

\* C8: ow, int and allowlist never fail at call time; a query that holds an
\* error placeholder one of them returned fails, without SQL, with the error
\* registered for that placeholder; under Develop the error of an invalid ow
\* fragment is Message("invalid literal").
DeferredErrorsFire ==
    /\ last.op \in { "ow", "int", "allowlist" } => last.st = "ok"
    /\ \A i \in 1 .. Len(parts) :
         (/\ result.op # "none"
          /\ parts[i].kind # "raw"
          /\ Unpadded(parts[i].text) \in DOMAIN error_msg.value_key)
         => /\ result.st = "err"
            /\ result.sql = << >>
            /\ result.err = error_msg.value_key[Unpadded(parts[i].text)]
    /\ (/\ last.op = "ow" /\ last.st = "ok"
        /\ error_level = "Develop"
        /\ ~ QuotesBalanced(last.arg))
       => /\ Unpadded(last.ret) \in DOMAIN error_msg.value_key
          /\ error_msg.value_key[Unpadded(last.ret)] = Message("invalid literal", << >>)

\* C9: for every value v given to add_allowlist the fragment registered is a
\* quote, v with every quote doubled, a quote, and actual_sql(allowlist(v))
\* emits that literal.
AllowlistRegistersEscapedForm ==
    /\ \A v \in allowlist : EscapedForm(v) \in DOMAIN overwrite.key_value
    /\ (/\ result.op = "actual_sql"
        /\ Len(parts) = 1 /\ parts[1].kind = "allowlist"
        /\ parts[1].arg \in allowlist
        /\ Unpadded(parts[1].text) \in DOMAIN overwrite.value_key)
       => /\ result.st = "ok"
          /\ result.sql = EscapedForm(parts[1].arg) \o << SP >>

\* C10: allowlist(v) returns the placeholder of a trusted fragment iff v is
\* in the allowlist set when it is called, and an error placeholder
\* otherwise; a query built from that error placeholder fails with the deny
\* error, also when v is in the allowlist by the time the query runs.
AllowlistIffMember ==
    /\ last.op = "allowlist" =>
         /\ last.st = "ok"
         /\ last.arg \in allowlist <=>
              Unpadded(last.ret) \in DOMAIN overwrite.value_key
         /\ last.arg \notin allowlist <=>
              Unpadded(last.ret) \in DOMAIN error_msg.value_key
    /\ \A i \in 1 .. Len(parts) :
         (/\ result.op # "none"
          /\ parts[i].kind = "allowlist"
          /\ Unpadded(parts[i].text) \in DOMAIN error_msg.value_key)
         => /\ result.st = "err"
            /\ result.err = IF debug_assertions
                            THEN Message("deny value", << >>) ELSE AnyError

\* C10 happens: a was denied, then added to the allowlist, and the query
\* built from the denial was executed
AllowlistIffMemberWitness ==
    /\ S_a \in allowlist
    /\ Len(parts) = 1 /\ parts[1].kind = "allowlist" /\ parts[1].arg = S_a
    /\ Unpadded(parts[1].text) \in DOMAIN error_msg.value_key
    /\ result.op = "execute" /\ result.st = "err"

CanonicalInt(value) ==
    LET signed == value # << >> /\ Head(value) \in { "+", "-" }
        digits == StripZeros(IF signed THEN Tail(value) ELSE value)
    IN  IF digits = << >> THEN << "0" >>
        ELSE (IF signed /\ Head(value) = "-" THEN << "-" >> ELSE << >>) \o digits

\* C11: int(value) registers the canonical decimal string of the integer that
\* value spells, so every spelling of one integer returns one placeholder and
\* actual_sql emits the canonical form unquoted; a value that is not an i64
\* registers a deferred error and nothing in overwrite.
IntRegistersCanonical ==
    /\ last.op = "int" =>
         IF parse_i64_is_ok(last.arg)
         THEN /\ last.st = "ok"
              /\ contain(overwrite, CanonicalInt(last.arg))
              /\ last.ret = Padded(get(overwrite, CanonicalInt(last.arg)))
         ELSE /\ last.st = "ok"
              /\ contain_reverse(error_msg, Unpadded(last.ret))
              /\ ~ contain(overwrite, last.arg)
    /\ ( /\ result.op = "actual_sql"
         /\ Len(parts) = 1
         /\ parts[1].kind = "int"
         /\ parse_i64_is_ok(parts[1].arg) )
       => /\ result.st = "ok"
          /\ result.sql = CanonicalInt(parts[1].arg) \o << SP >>

\* v with each character of set written twice
RECURSIVE DoubleEach(_, _)
DoubleEach(v, set) ==
    IF v = << >> THEN << >>
    ELSE DoubleEach(SubSeq(v, 1, Len(v) - 1), set)
         \o (IF v[Len(v)] \in set THEN << v[Len(v)], v[Len(v)] >> ELSE << v[Len(v)] >>)

\* C12: ow_without_html_escape(v) always returns the placeholder of a trusted
\* fragment, never an error placeholder, and actual_sql of it is a quote, v
\* with each single quote doubled (SQLite) or each single quote and backslash
\* doubled (MySQL, PostgreSQL), a quote and one space.
WithoutHtmlEscapeQuotes ==
    /\ last.op = "ow_without_html_escape" =>
         /\ last.st = "ok"
         /\ contain_reverse(overwrite, Unpadded(last.ret))
         /\ ~ contain_reverse(error_msg, Unpadded(last.ret))
    /\ ( /\ result.op = "actual_sql"
         /\ Len(parts) = 1
         /\ parts[1].kind = "ow_without_html_escape" )
       => /\ result.st = "ok"
          /\ result.sql =
               << SQ >>
               \o DoubleEach(parts[1].arg,
                             IF db_type = "Sqlite" THEN { SQ } ELSE { SQ, BS })
               \o << SQ, SP >>

\* C12 happens: a\' was quoted under MySQL and run alone, and a value that
\* ends with a two-byte character was quoted
WithoutHtmlEscapeQuotesWitness ==
    /\ db_type = "Mysql"
    /\ result.op = "actual_sql" /\ result.st = "ok"
    /\ Len(parts) = 1
    /\ parts[1].kind = "ow_without_html_escape"
    /\ parts[1].arg = S_absq
    /\ << SQ >> \o S_awide \o << SQ >> \in DOMAIN overwrite.key_value

\* The tokens of the composed query under the registries of the state
QueryTokens ==
    tokenize(Query(parts), must_escape(db_type), overwrite, whitespace_around,
             error_msg, error_level, debug_assertions).tokens

\* The text of the unit a token emits: the fragment of a placeholder, or the
\* quoted literal
UnitText(token) ==
    IF token.type = "Overwrite" THEN overwrite.value_key[token.val] ELSE token.val

\* The first n units, each followed by one space
RECURSIVE UnitsSpaced(_, _)
UnitsSpaced(tokens, n) ==
    IF n = 0 THEN << >>
    ELSE UnitsSpaced(tokens, n - 1) \o UnitText(tokens[n]) \o << SP >>

\* C14 (as stated): whenever actual_sql succeeds its output is the units, each
\* followed by one space, and it always ends with a space.
OutputEndsWithSpace ==
    (result.op = "actual_sql" /\ result.st = "ok")
    => /\ result.sql = UnitsSpaced(QueryTokens, Len(QueryTokens))
       /\ result.sql # << >>
       /\ result.sql[Len(result.sql)] = SP

\* C14 (amended): whenever actual_sql succeeds its output is the units, each
\* followed by one space; it ends with a space when there is at least one
\* unit, and is empty when the query has no token.
OutputIsUnitsSpaced ==
    (result.op = "actual_sql" /\ result.st = "ok")
    => /\ result.sql = UnitsSpaced(QueryTokens, Len(QueryTokens))
       /\ QueryTokens # << >> => result.sql[Len(result.sql)] = SP
       /\ QueryTokens = << >> => result.sql = << >>

\* C14 happens: a query of a literal and a trusted fragment was rewritten
OutputIsUnitsSpacedWitness ==
    /\ result.op = "actual_sql" /\ result.st = "ok"
    /\ Len(QueryTokens) = 2
    /\ QueryTokens[1].type = "String"
    /\ QueryTokens[2].type = "Overwrite"

\* s without the whitespace at its two ends
RECURSIVE Trimmed(_)
Trimmed(s) ==
    IF s = << >> THEN s
    ELSE IF is_whitespace(s[1]) THEN Trimmed(Tail(s))
    ELSE IF is_whitespace(s[Len(s)]) THEN Trimmed(SubSeq(s, 1, Len(s) - 1))
    ELSE s

\* The tokens of q from index i on, when each run of raw text between two
\* placeholder words (or an end of q) is one literal: the run without the
\* whitespace at its ends, escaped and quoted; a run of whitespace alone
\* gives no token
RECURSIVE RunTokens(_, _)
RunTokens(q, i) ==
    IF i > Len(q) THEN << >>
    ELSE LET words == { k \in PlaceholderWords(q, overwrite)
                               \cup PlaceholderWords(q, error_msg) : k >= i }
             k     == IF words = { } THEN Len(q) + 1
                      ELSE CHOOSE m \in words : \A n \in words : m <= n
             run   == Trimmed(SubSeq(q, i, k - 1))
         IN  (IF run = << >> THEN << >>
              ELSE << Token("String",
                            << SQ >> \o DoubleEach(run, must_escape(db_type))
                                    \o << SQ >>) >>)
             \o (IF k > Len(q) THEN << >>
                 ELSE << Token(IF << q[k] >> \in DOMAIN overwrite.value_key
                               THEN "Overwrite" ELSE "ErrOverwrite",
                               << q[k] >>) >>)
             \o RunTokens(q, k + 1)

CursorOnCharBoundary ==
    /\ parser.st # "panic"
    /\ is_char_boundary(parser.input, parser.pos)
    /\ parser.pos <= Len(parser.input)
    /\ parser.st = "ok" =>
         /\ parser.ret = parser.input[parser.from + 1]
         /\ parser.pos = parser.from + 1
    /\ eof(parser.input, parser.pos) <=> parser.pos = Len(parser.input)
    /\ parser.st = "err" => parser.from = Len(parser.input)

\* The characters a scan has not consumed yet
Remaining(s) == IF s.pos = OffBoundary THEN 0 ELSE Len(s.input) - s.pos

\* C17: tokenize and check_valid_literal terminate on every input and every
\* registry content: a round of the outer loop that does not leave the loop
\* consumes at least one character, every started scan ends, and tokenize
\* returns its tokens only at the end of the input, with what the whole loop
\* computes.
ScansTerminate ==
    /\ []( (scan.fn = "tokenize" /\ scan.st = "ok")
           => /\ eof(scan.input, scan.pos)
              /\ scan.tokens = tokenize(scan.input, must_escape(db_type), overwrite,
                                        whitespace_around, error_msg, error_level,
                                        debug_assertions).tokens )
    /\ []( (scan.fn = "check_valid_literal" /\ scan.st # "running")
           => scan.st = check_valid_literal(scan.input, error_level).st )
    /\ [][ (scan.st = "running" /\ scan'.st = "running")
           => Remaining(scan') < Remaining(scan) ]_vars
    /\ []( scan.st = "running" => <>(scan.st # "running") )

\* C17 happens: tokenize went through two rounds of its loop, one for a
\* placeholder and one for a literal, and returned
ScansTerminateWitness ==
    /\ scan.fn = "tokenize" /\ scan.st = "ok"
    /\ Len(scan.input) = MaxScanLen
    /\ Len(scan.tokens) = 2

\* C13 as stated: on a Connection shared by two threads no two threads are
\* inside the same registry or the serial counter at the same time, no call
\* of ow panics half way, and two concurrent calls ow(x) that returned
\* returned the same placeholder, the one the registry holds for x.
RegistryAccessExclusive ==
    /\ \A c \in Cells :
          Cardinality({ t \in DOMAIN threads :
                          threads[t].phase = "in" /\ CellOf(threads[t].pc) = c }) <= 1
    /\ \A t \in DOMAIN threads : threads[t].st # "panic"
    /\ \A t, u \in DOMAIN threads :
          (threads[t].st = "ok" /\ threads[u].st = "ok" /\ threads[t].s = threads[u].s)
          => /\ threads[t].ret = threads[u].ret
             /\ contain(overwrite, threads[t].s)
             /\ threads[t].ret = Padded(get(overwrite, threads[t].s))

\* The placeholder a call returned, without the spaces format!(" {} ", ..) adds
ReturnedPlaceholder(call) == SubSeq(call.ret, 2, Len(call.ret) - 1)

\* C18: every value of the allowlist has its key escape_for_allowlist(v) in
\* the overwrite registry, so that the lookup of allowlist never fails; and
\* what ow, int, ow_without_html_escape and allowlist return is the
\* placeholder their lookup found, in the registry they had just checked.
AllowlistKeysRegistered ==
    /\ \A v \in allowlist : contain(overwrite, escape_for_allowlist(v))
    /\ last.op = "allowlist" => last.st = "ok"
    /\ (last.op = "allowlist" /\ last.arg \in allowlist)
       => last.ret = Padded(get(overwrite, escape_for_allowlist(last.arg)))
    /\ (last.op \in { "ow", "int", "ow_without_html_escape", "allowlist" }
        /\ last.st = "ok")
       => /\ Len(last.ret) = 3
          /\ \/ contain_reverse(overwrite, ReturnedPlaceholder(last))
             \/ contain_reverse(error_msg, ReturnedPlaceholder(last))
    /\ (last.op \in { "ow", "int" } /\ last.st = "ok" /\ contain(overwrite, last.arg))
       => last.ret = Padded(get(overwrite, last.arg))

\* C18 happens: a value with a quote inside is on the allowlist, under the
\* key escape_for_allowlist cuts from it, and allowlist just looked it up
AllowlistKeysRegisteredWitness ==
    /\ last.op = "allowlist" /\ last.st = "ok"
    /\ last.arg = S_aqb /\ last.arg \in allowlist
    /\ escape_for_allowlist(last.arg) # last.arg
    /\ serial_number = MaxSerial

=============================================================================
